---- MODULE Spec2Model ----
(***************************************************************************)
(* Agency Leads Dashboard API (src/main.py, src/schemas.py).               *)
(*                                                                         *)
(* The store is four collections (customer, admin, lead, feedback), each   *)
(* a sequence of documents in insertion order.  Store identifiers          *)
(* (bson.ObjectId) are positive naturals; their text form is a 24-digit    *)
(* hexadecimal string, modelled as a record that keeps the letter case,    *)
(* because ObjectId(text) accepts both cases and str(oid) always prints    *)
(* lower case.  Every HTTP handler is one action; the startup seed is two  *)
(* steps per process (find_one, then insert).                              *)
(*                                                                         *)
(* Left opaque: the fields no handler reads (phone, source, notes,         *)
(* comment, timestamps).  A configured store is taken to answer every      *)
(* call; an unconfigured one (db is None) is a possible initial state.     *)
(* Customer records come from outside this program, with unique emails.    *)
(***************************************************************************)
EXTENDS Integers, Sequences, FiniteSets, TLC

\* ---- bounds of the model ----
NumCustomers == 2
NumProcs == 2
MaxLeads == 2
MaxFeedback == 1

\* ---- program constants ----
LeadListLimit == 100
FeedbackListLimit == 200
RatingMin == 1
RatingMax == 5

VARIABLES
  db,        \* TRUE when the store is configured (db is not None)
  customer,  \* the four collections, in insertion order
  admin,
  lead,
  feedback,
  creator,   \* history: creator[j] is the customer whose request inserted lead[j]
  pc,        \* pc[s]: how many processes are at position s of their startup
  last       \* the request just handled and its response, until it is returned

vars == <<db, customer, admin, lead, feedback, creator, pc, last>>

\* the positions of a process in its startup event
Positions == {"start", "insert", "done"}

\* ---- text values (str) ----
NoneS == [kind |-> "none", n |-> 0, upper |-> FALSE]
EmptyS == [kind |-> "empty", n |-> 0, upper |-> FALSE]
JunkS == [kind |-> "junk", n |-> 0, upper |-> FALSE]
Hex(n, u) == [kind |-> "hex", n |-> n, upper |-> u]

InvalidId == 0

\* bson.ObjectId(text): 24 hexadecimal digits of either case, else InvalidId is raised
ObjectId(s) == IF s.kind = "hex" THEN s.n ELSE InvalidId

\* str(oid): the lower-case hexadecimal text of an identifier
str(oid) == Hex(oid, FALSE)

\* ---- the Authorization header ----
\* The header's text is "Bearer " (when bearer) followed by tok; NoHeader is None.
NoHeader == [bearer |-> FALSE, tok |-> NoneS]
Header(b, t) == [bearer |-> b, tok |-> t]

\* `not authorization`: None or the empty string
Truthy(authorization) == authorization.bearer \/ authorization.tok.kind \notin {"none", "empty"}

\* authorization.replace("Bearer ", "")
Replace(authorization) == authorization.tok

\* ---- the document store ----
Min(S) == CHOOSE x \in S : \A y \in S : x <= y

Matches(d, flt) == \A k \in DOMAIN flt : d[k] = flt[k]

NoDoc == [id |-> 0]

\* collection.find_one(filter): the first matching document, or None
find_one(coll, flt) ==
  LET idx == {i \in DOMAIN coll : Matches(coll[i], flt)}
  IN IF idx = {} THEN NoDoc ELSE coll[Min(idx)]

Take(s, n) == IF Len(s) <= n THEN s ELSE SubSeq(s, 1, n)

\* database.get_documents(collection, filter, limit)
get_documents(coll, flt, limit) == Take(SelectSeq(coll, LAMBDA d : Matches(d, flt)), limit)

\* The identifier the store gives the next document of a collection.  Identifiers
\* are unique across the store: the collection (0 customer, 1 admin, 2 lead,
\* 3 feedback) is the remainder, the insertion count the quotient.
IdOf(k, n) == 4 * n + k

NewId(coll, k) == IdOf(k, Len(coll) + 1)

\* database.create_document(collection, data): the collection with the document
\* appended under a fresh identifier, and the identifier's text
create_document(coll, k, data) ==
  [coll |-> Append(coll, [data EXCEPT !.id = NewId(coll, k)]),
   inserted_id |-> str(NewId(coll, k))]

\* ---- outcomes ----
Resp(op) ==
  [op |-> op, status |-> 200, auth |-> NoHeader, caller |-> 0, email |-> 0,
   password |-> "", lead_id |-> NoneS, token |-> NoneS, id_text |-> NoneS, docs |-> <<>>]

Err(status) == [status |-> status, id |-> 0]

\* ---- customer auth ----
get_customer_by_email(email) ==
  IF db THEN find_one(customer, [email |-> email]) ELSE NoDoc

\* variant: the password is not compared
password_ok_any(password, c) == TRUE

\* payload.password != customer.get("password_hash") is the failure
password_ok(password, c) == password = c.password_hash

\* POST /auth/login
login(email, password) ==
  IF ~db THEN [status |-> 500, token |-> NoneS, customer_id |-> NoneS]
  ELSE LET c == get_customer_by_email(email)
       IN IF c.id = 0 THEN [status |-> 401, token |-> NoneS, customer_id |-> NoneS]
          ELSE IF ~password_ok(password, c)
               THEN [status |-> 401, token |-> NoneS, customer_id |-> NoneS]
               ELSE LET token == str(c.id)
                    IN [status |-> 200, token |-> token, customer_id |-> token]

\* variant: the lookup does not filter on the identifier
customer_token_filter_any(oid) == <<>>

\* the filter of db["customer"].find_one({"_id": oid})
customer_token_filter(oid) == [id |-> oid]

\* the dependency resolving the bearer token to the calling customer
get_current_customer(authorization) ==
  IF ~db THEN Err(500)
  ELSE IF ~Truthy(authorization) THEN Err(401)
  ELSE LET token == Replace(authorization)
           oid == ObjectId(token)
       IN IF oid = InvalidId THEN Err(401)
          ELSE LET c == find_one(customer, customer_token_filter(oid))
               IN IF c.id = 0 THEN Err(401) ELSE [status |-> 200, id |-> c.id]

\* ---- admin auth ----
\* variant: the seed looks for another spelling than the one it inserts
seed_filter_other_case == [username |-> "Admin"]

\* the filter of db["admin"].find_one({"username": "admin"})
seed_filter == [username |-> "admin"]

\* Admin(username="admin", password_hash="admin", role="admin", is_active=True)
DefaultAdmin ==
  [id |-> 0, username |-> "admin", password_hash |-> "admin", role |-> "admin",
   is_active |-> TRUE]

\* POST /admin/login
admin_login(username, password) ==
  IF ~db THEN [status |-> 500, token |-> NoneS]
  ELSE LET a == find_one(admin, [username |-> username])
       IN IF a.id = 0 \/ password /= a.password_hash
          THEN [status |-> 401, token |-> NoneS]
          ELSE [status |-> 200, token |-> str(a.id)]

get_current_admin(authorization) ==
  IF ~db THEN Err(500)
  ELSE IF ~Truthy(authorization) THEN Err(401)
  ELSE LET token == Replace(authorization)
           oid == ObjectId(token)
       IN IF oid = InvalidId THEN Err(401)
          ELSE LET a == find_one(admin, [id |-> oid])
               IN IF a.id = 0 THEN Err(401) ELSE [status |-> 200, id |-> a.id]

\* ---- leads ----
\* variant: a customer_id in the request body is honoured
lead_owner_from_body(cur, payload) ==
  IF payload.customer_id.kind = "none" THEN str(cur.id) ELSE payload.customer_id

\* Lead(customer_id=str(customer["_id"]), ...): LeadCreate has no customer_id
\* field, so a customer_id sent in the body is dropped
lead_owner(cur, payload) == str(cur.id)

\* schemas.Lead: email is Optional[EmailStr]; status defaults to "new"
LeadValid(data) == data.email \in {"None", "ok"}

\* POST /leads
create_lead(authorization, payload) ==
  LET cur == get_current_customer(authorization)
  IN IF cur.status /= 200
     THEN [status |-> cur.status, caller |-> 0, coll |-> lead, id |-> NoneS]
     ELSE LET data == [id |-> 0, customer_id |-> lead_owner(cur, payload),
                       name |-> payload.name, email |-> payload.email, status |-> "new"]
          IN IF ~LeadValid(data)
             THEN [status |-> 500, caller |-> cur.id, coll |-> lead, id |-> NoneS]
             ELSE LET r == create_document(lead, 2, data)
                  IN [status |-> 200, caller |-> cur.id, coll |-> r.coll,
                      id |-> r.inserted_id]

\* d["_id"] = str(d["_id"]) on each returned document
Rendered(docs) == [i \in DOMAIN docs |-> [docs[i] EXCEPT !.id = str(docs[i].id)]]

\* variant: the listing does not filter on the owner
leads_filter_all(cur) == <<>>

\* the filter of get_documents("lead", {"customer_id": str(customer["_id"])})
leads_filter(cur) == [customer_id |-> str(cur.id)]

\* GET /leads
list_leads(authorization) ==
  LET cur == get_current_customer(authorization)
  IN IF cur.status /= 200
     THEN [status |-> cur.status, caller |-> 0, docs |-> <<>>]
     ELSE [status |-> 200, caller |-> cur.id,
           docs |-> Rendered(get_documents(lead, leads_filter(cur), LeadListLimit))]

\* ---- feedback ----
Dispositions == {"qualified", "unqualified", "follow_up", "wrong_number", "no_response"}

\* schemas.Feedback: rating is None or within 1..5, disposition one of the literals.
\* An Optional[int] is the empty set (None) or a singleton.
FeedbackValid(data) ==
  /\ \A r \in data.rating : RatingMin <= r /\ r <= RatingMax
  /\ data.disposition \in Dispositions

\* variant: the lead is looked up by identifier alone
submit_lead_filter_any(lead_id, cur) == [id |-> ObjectId(lead_id)]

\* the filter of db["lead"].find_one in submit_feedback
submit_lead_filter(lead_id, cur) == [id |-> ObjectId(lead_id), customer_id |-> str(cur.id)]

\* variant: the lead is looked up by identifier alone
get_lead_filter_any(lead_id, cur) == [id |-> ObjectId(lead_id)]

\* the filter of db["lead"].find_one in get_feedback_for_lead
get_lead_filter(lead_id, cur) == [id |-> ObjectId(lead_id), customer_id |-> str(cur.id)]

FeedbackData(payload, cur) ==
  [id |-> 0, lead_id |-> payload.lead_id, customer_id |-> str(cur.id),
   rating |-> payload.rating,
   disposition |-> IF payload.disposition \in {"None", ""} THEN "follow_up"
                   ELSE payload.disposition]

\* variant: the document is persisted before the schema has accepted it
submit_feedback_write_first(authorization, payload) ==
  LET cur == get_current_customer(authorization)
  IN IF cur.status /= 200
     THEN [status |-> cur.status, caller |-> 0, coll |-> feedback, id |-> NoneS]
     ELSE IF ObjectId(payload.lead_id) = InvalidId
     THEN [status |-> 500, caller |-> cur.id, coll |-> feedback, id |-> NoneS]
     ELSE IF find_one(lead, submit_lead_filter(payload.lead_id, cur)).id = 0
     THEN [status |-> 404, caller |-> cur.id, coll |-> feedback, id |-> NoneS]
     ELSE LET data == FeedbackData(payload, cur)
              r == create_document(feedback, 3, data)
          IN IF ~FeedbackValid(data)
             THEN [status |-> 500, caller |-> cur.id, coll |-> r.coll, id |-> NoneS]
             ELSE [status |-> 200, caller |-> cur.id, coll |-> r.coll,
                   id |-> r.inserted_id]

\* POST /feedback.  bson.ObjectId(payload.lead_id) is evaluated outside any try:
\* InvalidId escapes the handler (500), as does the schema's ValidationError.
submit_feedback(authorization, payload) ==
  LET cur == get_current_customer(authorization)
  IN IF cur.status /= 200
     THEN [status |-> cur.status, caller |-> 0, coll |-> feedback, id |-> NoneS]
     ELSE IF ObjectId(payload.lead_id) = InvalidId
     THEN [status |-> 500, caller |-> cur.id, coll |-> feedback, id |-> NoneS]
     ELSE IF find_one(lead, submit_lead_filter(payload.lead_id, cur)).id = 0
     THEN [status |-> 404, caller |-> cur.id, coll |-> feedback, id |-> NoneS]
     ELSE LET data == FeedbackData(payload, cur)
          IN IF ~FeedbackValid(data)
             THEN [status |-> 500, caller |-> cur.id, coll |-> feedback, id |-> NoneS]
             ELSE LET r == create_document(feedback, 3, data)
                  IN [status |-> 200, caller |-> cur.id, coll |-> r.coll,
                      id |-> r.inserted_id]

\* GET /feedback/{lead_id}
get_feedback_for_lead(authorization, lead_id) ==
  LET cur == get_current_customer(authorization)
  IN IF cur.status /= 200
     THEN [status |-> cur.status, caller |-> 0, docs |-> <<>>]
     ELSE IF ObjectId(lead_id) = InvalidId
     THEN [status |-> 500, caller |-> cur.id, docs |-> <<>>]
     ELSE IF find_one(lead, get_lead_filter(lead_id, cur)).id = 0
     THEN [status |-> 404, caller |-> cur.id, docs |-> <<>>]
     ELSE [status |-> 200, caller |-> cur.id,
           docs |-> Rendered(get_documents(feedback,
                       [lead_id |-> lead_id, customer_id |-> str(cur.id)],
                       FeedbackListLimit))]

\* ---- inputs ----
Emails == 1..(NumCustomers + 1)
Passwords == {"pw1", "bad"}

PasswordOf(i) == IF i % 2 = 1 THEN "pw1" ELSE "pw2"

\* the customers a seeding process outside this program has stored
SeededCustomers ==
  [i \in 1..NumCustomers |->
     [id |-> IdOf(0, i), email |-> i, password_hash |-> PasswordOf(i), name |-> "User"]]

LeadIds == {l.id : l \in {lead[i] : i \in DOMAIN lead}}

\* header texts: none, a non-identifier, a lead's identifier (no customer's), and
\* each customer's identifier, with or without the "Bearer " prefix, in lower or
\* upper case
AuthInputs ==
  {NoHeader, Header(TRUE, JunkS), Header(TRUE, Hex(IdOf(2, 1), FALSE))}
  \cup {Header(i % 2 = 1, Hex(IdOf(0, i), i % 2 = 0)) : i \in 1..NumCustomers}

AdminAuthInputs ==
  {NoHeader, Header(TRUE, JunkS), Header(TRUE, Hex(IdOf(0, 1), FALSE)),
   Header(TRUE, Hex(IdOf(1, 1), FALSE)), Header(FALSE, Hex(IdOf(1, 2), TRUE))}

\* lead_id texts: a non-identifier, an identifier no lead has yet, and each
\* lead's identifier (the first one also in upper case)
LeadIdInputs ==
  {JunkS, Hex(NewId(lead, 2), FALSE)} \cup {Hex(n, FALSE) : n \in LeadIds}
  \cup {Hex(n, TRUE) : n \in LeadIds \cap {IdOf(2, 1)}}

LeadPayloads ==
  {[name |-> "Jane", email |-> "None", customer_id |-> NoneS],
   [name |-> "Jane", email |-> "bad", customer_id |-> NoneS],
   [name |-> "Jane", email |-> "None", customer_id |-> str(IdOf(0, 1))]}

FeedbackBodies ==
  {[rating |-> {RatingMax}, disposition |-> "None"],
   [rating |-> {RatingMax + 1}, disposition |-> "None"],
   [rating |-> {}, disposition |-> "bogus"]}

FeedbackPayloads ==
  {[lead_id |-> l, rating |-> b.rating, disposition |-> b.disposition] :
     l \in LeadIdInputs, b \in FeedbackBodies}

\* ---- the state machine ----
Init ==
  /\ db \in BOOLEAN
  /\ customer = IF db THEN SeededCustomers ELSE <<>>
  /\ admin = <<>>
  /\ lead = <<>>
  /\ feedback = <<>>
  /\ creator = <<>>
  /\ pc = [s \in Positions |-> IF s = "start" THEN NumProcs ELSE 0]
  /\ last = Resp("idle")

\* a process serves requests once its startup event has returned
Up == pc["done"] > 0

\* one process moves from one position to another
Move(from, to) == [pc EXCEPT ![from] = @ - 1, ![to] = @ + 1]

\* no response is on its way to a client
Idle == last.op = "idle"

\* a request is taken when a process is up and the previous response has left
Ready == Up /\ Idle

\* ensure_default_admin, first half: the db test and find_one
StartupFind ==
  /\ Idle
  /\ pc["start"] > 0
  /\ pc' = Move("start", IF db /\ find_one(admin, seed_filter).id = 0
                         THEN "insert" ELSE "done")
  /\ UNCHANGED <<db, customer, admin, lead, feedback, creator, last>>

\* ensure_default_admin, second half: create_document("admin", data)
StartupInsert ==
  /\ Idle
  /\ pc["insert"] > 0
  /\ admin' = create_document(admin, 1, DefaultAdmin).coll
  /\ pc' = Move("insert", "done")
  /\ UNCHANGED <<db, customer, lead, feedback, creator, last>>

\* ensure_default_admin run from start to end with no other process in between
EnsureDefaultAdmin ==
  /\ Idle
  /\ pc["start"] > 0
  /\ IF db /\ find_one(admin, seed_filter).id = 0
     THEN admin' = create_document(admin, 1, DefaultAdmin).coll
     ELSE UNCHANGED admin
  /\ pc' = Move("start", "done")
  /\ UNCHANGED <<db, customer, lead, feedback, creator, last>>

\* the process is started again against the same store
Restart ==
  /\ Idle
  /\ pc["done"] > 0
  /\ pc' = Move("done", "start")
  /\ UNCHANGED <<db, customer, admin, lead, feedback, creator, last>>

Login(email, password) ==
  /\ Ready
  /\ LET r == login(email, password)
     IN last' = [Resp("login") EXCEPT !.status = r.status, !.email = email,
                   !.password = password, !.token = r.token, !.id_text = r.customer_id]
  /\ UNCHANGED <<db, customer, admin, lead, feedback, creator, pc>>

AdminLogin(username, password) ==
  /\ Ready
  /\ LET r == admin_login(username, password)
     IN last' = [Resp("admin_login") EXCEPT !.status = r.status, !.password = password,
                   !.token = r.token, !.id_text = r.token]
  /\ UNCHANGED <<db, customer, admin, lead, feedback, creator, pc>>

\* a request that depends on get_current_admin
AdminRequest(authorization) ==
  /\ Ready
  /\ LET r == get_current_admin(authorization)
     IN last' = [Resp("get_current_admin") EXCEPT !.status = r.status,
                   !.auth = authorization, !.caller = r.id]
  /\ UNCHANGED <<db, customer, admin, lead, feedback, creator, pc>>

CreateLead(authorization, payload) ==
  /\ Ready
  /\ Len(lead) < MaxLeads
  /\ LET r == create_lead(authorization, payload)
     IN /\ lead' = r.coll
        /\ creator' = IF r.status = 200 THEN Append(creator, r.caller) ELSE creator
        /\ last' = [Resp("create_lead") EXCEPT !.status = r.status,
                      !.auth = authorization, !.caller = r.caller, !.id_text = r.id]
  /\ UNCHANGED <<db, customer, admin, feedback, pc>>

ListLeads(authorization) ==
  /\ Ready
  /\ LET r == list_leads(authorization)
     IN last' = [Resp("list_leads") EXCEPT !.status = r.status, !.auth = authorization,
                   !.caller = r.caller, !.docs = r.docs]
  /\ UNCHANGED <<db, customer, admin, lead, feedback, creator, pc>>

SubmitFeedback(authorization, payload) ==
  /\ Ready
  /\ Len(feedback) < MaxFeedback
  /\ LET r == submit_feedback(authorization, payload)
     IN /\ feedback' = r.coll
        /\ last' = [Resp("submit_feedback") EXCEPT !.status = r.status,
                      !.auth = authorization, !.caller = r.caller,
                      !.lead_id = payload.lead_id, !.id_text = r.id]
  /\ UNCHANGED <<db, customer, admin, lead, creator, pc>>

GetFeedback(authorization, lead_id) ==
  /\ Ready
  /\ LET r == get_feedback_for_lead(authorization, lead_id)
     IN last' = [Resp("get_feedback_for_lead") EXCEPT !.status = r.status,
                   !.auth = authorization, !.caller = r.caller, !.lead_id = lead_id,
                   !.docs = r.docs]
  /\ UNCHANGED <<db, customer, admin, lead, feedback, creator, pc>>

\* the response leaves the process
Return ==
  /\ ~Idle
  /\ last' = Resp("idle")
  /\ UNCHANGED <<db, customer, admin, lead, feedback, creator, pc>>

Requests ==
  \/ \E e \in Emails, pw \in Passwords : Login(e, pw)
  \/ \E u \in {"admin", "root"}, pw \in {"admin", "bad"} : AdminLogin(u, pw)
  \/ \E a \in AdminAuthInputs : AdminRequest(a)
  \/ \E a \in AuthInputs, b \in LeadPayloads : CreateLead(a, b)
  \/ \E a \in AuthInputs : ListLeads(a)
  \/ \E a \in AuthInputs, b \in FeedbackPayloads : SubmitFeedback(a, b)
  \/ \E a \in AuthInputs, l \in LeadIdInputs : GetFeedback(a, l)
  \/ Return

Next ==
  \/ StartupFind
  \/ StartupInsert
  \/ Restart
  \/ Requests

\* processes whose startup steps interleave
Spec == Init /\ [][Next]_vars

NextSeq ==
  \/ EnsureDefaultAdmin
  \/ Restart
  \/ Requests

\* startup runs one after another
SpecSeq == Init /\ [][NextSeq]_vars

TypeOK ==
  /\ db \in BOOLEAN
  /\ pc \in [Positions -> 0..NumProcs]
  /\ Len(creator) = Len(lead)

\* ---- vocabulary of the properties ----
Docs(coll) == {coll[i] : i \in DOMAIN coll}

CustomerOps == {"create_lead", "list_leads", "submit_feedback", "get_feedback_for_lead"}
FeedbackOps == {"submit_feedback", "get_feedback_for_lead"}

\* a step that handles one HTTP request
Request == Idle /\ ~Idle'

\* the identifier a header's token denotes (InvalidId when it denotes none)
TokenId(authorization) == ObjectId(Replace(authorization))

\* the lead the text lead_id denotes exists and belongs to customer c
Owns(c, lead_id) ==
  \E l \in Docs(lead) : l.id = ObjectId(lead_id) /\ l.customer_id = str(c)

\* the lead the text lead_id denotes exists and belongs to another customer than c
Foreign(c, lead_id) ==
  \E l \in Docs(lead) : l.id = ObjectId(lead_id) /\ l.customer_id /= str(c)

\* lead_id is the text of an identifier that no lead has
Absent(lead_id) ==
  ObjectId(lead_id) /= InvalidId /\ \A l \in Docs(lead) : l.id /= ObjectId(lead_id)

AdminCount == Cardinality({i \in DOMAIN admin : admin[i].username = "admin"})

\* C1: GET /leads called with customer B's token returns only leads that were
\* created with B's token, each with customer_id equal to B's identifier.
C1_TenantIsolation ==
  (last.op = "list_leads" /\ last.status = 200) =>
    \A i \in DOMAIN last.docs :
      /\ last.docs[i].customer_id = str(TokenId(last.auth))
      /\ \E j \in DOMAIN lead :
           str(lead[j].id) = last.docs[i].id /\ creator[j] = TokenId(last.auth)

\* reached: B lists, gets a lead of its own, while another customer's lead is stored
C1_Witness ==
  /\ last.op = "list_leads" /\ last.status = 200 /\ Len(last.docs) = 1
  /\ \E j \in DOMAIN lead : creator[j] /= TokenId(last.auth)

\* C2: feedback create and list by an authenticated customer for the identifier of
\* a lead another customer owns yield 404, the same outcome as for an identifier
\* no lead has; nothing is persisted and no feedback is returned.
C2_ForeignLeadNotFound ==
  [][(Request /\ last'.op \in FeedbackOps /\ last'.caller /= 0
        /\ (Foreign(last'.caller, last'.lead_id) \/ Absent(last'.lead_id)))
       => (last'.status = 404 /\ last'.docs = <<>> /\ last'.id_text = NoneS
             /\ feedback' = feedback)]_vars

\* reached: a customer asked for the feedback of another customer's lead, which
\* has feedback, and got 404
C2_Witness ==
  /\ last.op = "get_feedback_for_lead" /\ last.status = 404
  /\ Foreign(last.caller, last.lead_id)
  /\ \E f \in Docs(feedback) : ObjectId(f.lead_id) = ObjectId(last.lead_id)

\* the customers a login's credentials match
Matching(email, password) ==
  {c \in Docs(customer) : c.email = email /\ c.password_hash = password}

LoginOutcome ==
  IF Matching(last.email, last.password) /= {}
  THEN /\ last.status = 200
       /\ \A c \in Matching(last.email, last.password) :
            last.token = str(c.id) /\ last.id_text = str(c.id)
  ELSE last.status = 401

\* C3 (as stated): credentials matching a stored customer log in with that
\* customer's identifier as token; any other credentials get 401.
C3_Login_AsStated == (last.op = "login") => LoginOutcome

\* C3 (amended): the same, when the store is configured.
C3_Login == (last.op = "login" /\ db) => LoginOutcome

\* reached: a login succeeded
C3_Witness == last.op = "login" /\ last.status = 200 /\ last.token.kind = "hex"

\* the records of a collection a header's token resolves to
Resolved(coll, authorization) ==
  {r \in Docs(coll) : TokenId(authorization) /= InvalidId /\ r.id = TokenId(authorization)}

ResolutionOutcome(coll) ==
  IF Resolved(coll, last.auth) = {}
  THEN last.status = 401 /\ last.caller = 0
  ELSE last.status /= 401 /\ \A r \in Resolved(coll, last.auth) : last.caller = r.id

TokenResolution ==
  /\ (last.op \in CustomerOps) => ResolutionOutcome(customer)
  /\ (last.op = "get_current_admin") => ResolutionOutcome(admin)
  /\ (last.op = "login" /\ last.status = 200) =>
        \A a \in {Header(TRUE, last.token), Header(FALSE, last.token)} :
          /\ get_current_customer(a).status = 200
          /\ \E c \in Docs(customer) :
               c.email = last.email /\ get_current_customer(a).id = c.id

\* C4 (as stated): a token resolves to exactly the record whose identifier it
\* equals; an absent, unparseable or unknown token always yields 401; the token a
\* login issued resolves to the customer that logged in.
C4_TokenResolution_AsStated == TokenResolution

\* C4 (amended): the same, when the store is configured.
C4_TokenResolution == db => TokenResolution

\* reached: a customer request ran as the customer an upper-case token without
\* the "Bearer " prefix denotes
C4_Witness ==
  /\ last.op \in CustomerOps /\ last.caller /= 0
  /\ last.auth.tok.upper /\ ~last.auth.bearer

\* C5: a feedback record is persisted only by POST /feedback, for the caller as
\* customer_id and for a lead of that caller that exists at that time; GET
\* /feedback/{lead_id} returns only records of the requested lead_id and of the
\* caller.
C5_FeedbackOwnership ==
  [][/\ \A i \in DOMAIN feedback' :
          i \in DOMAIN feedback \/
            /\ last'.op = "submit_feedback"
            /\ last'.caller = TokenId(last'.auth)
            /\ feedback'[i].customer_id = str(last'.caller)
            /\ \E l \in Docs(lead) :
                 l.id = ObjectId(feedback'[i].lead_id)
                   /\ l.customer_id = feedback'[i].customer_id
     /\ (Request /\ last'.op = "get_feedback_for_lead") =>
          \A i \in DOMAIN last'.docs :
            /\ last'.docs[i].lead_id = last'.lead_id
            /\ last'.docs[i].customer_id = str(TokenId(last'.auth))]_vars

\* reached: a customer read back feedback of its own lead
C5_Witness ==
  /\ last.op = "get_feedback_for_lead" /\ last.status = 200 /\ Len(last.docs) > 0

\* C6: every persisted lead has the creating caller's identifier as customer_id
\* and status "new", and no step changes or deletes an existing lead.
C6_LeadOwnershipFixed ==
  [][/\ \A j \in DOMAIN lead' :
          lead'[j].customer_id = str(creator'[j]) /\ lead'[j].status = "new"
     /\ \A j \in DOMAIN lead : j \in DOMAIN lead' /\ lead'[j] = lead[j]]_vars

\* reached: a lead created by another customer than the first is stored, and a
\* later feedback request has been served
C6_Witness ==
  /\ \E j \in DOMAIN lead : creator[j] /= IdOf(0, 1)
  /\ last.op = "submit_feedback" /\ last.status = 200

\* C7: startup runs one after another never yield two "admin" records; once one
\* exists, a run inserts nothing and leaves the admin collection unchanged.
C7_SeedIdempotent ==
  [][AdminCount' <= 1 /\ (AdminCount >= 1 => admin' = admin)]_vars

\* reached: every process has run its startup and one admin is stored
C7_Witness == pc["done"] = NumProcs /\ NumProcs >= 2 /\ AdminCount = 1

\* C8: once every startup has completed against a configured store, exactly one
\* "admin" record exists, also when the startups interleave.
C8_ExactlyOneAdmin == (db /\ pc["done"] = NumProcs) => AdminCount = 1

\* C9: feedback create and list by an authenticated caller yield 404 for every
\* lead_id that denotes no lead of the caller, a malformed lead_id included.
C9_NotFoundForEveryLeadId ==
  (last.op \in FeedbackOps /\ last.caller /= 0 /\ ~Owns(last.caller, last.lead_id))
    => last.status = 404

Extends(old, new) ==
  Len(new) = Len(old) + 1 /\ SubSeq(new, 1, Len(old)) = old

\* C10: a POST /leads (POST /feedback) that returns an id adds exactly one lead
\* (feedback), whose identifier it returns; every other request leaves the four
\* collections unchanged.
C10_WritesOnlyOnSuccess ==
  [][Request =>
       IF last'.op = "create_lead" /\ last'.status = 200
       THEN /\ Extends(lead, lead') /\ last'.id_text = str(lead'[Len(lead')].id)
            /\ UNCHANGED <<customer, admin, feedback>>
       ELSE IF last'.op = "submit_feedback" /\ last'.status = 200
       THEN /\ Extends(feedback, feedback')
            /\ last'.id_text = str(feedback'[Len(feedback')].id)
            /\ UNCHANGED <<customer, admin, lead>>
       ELSE UNCHANGED <<customer, admin, lead, feedback>>]_vars

\* reached: the schema rejected the feedback of a caller for its own lead
C10_Witness ==
  /\ last.op = "submit_feedback" /\ last.status = 500
  /\ Owns(last.caller, last.lead_id)
====
